---- MODULE Spec2Model ----
(***************************************************************************)
(* Falcon VOD: the uploader's run start, the Temporal transcoding workflow *)
(* with its activities, the catalog tables and the FFmpeg ladder encode.   *)
(***************************************************************************)
EXTENDS Integers, Sequences, FiniteSets, TLC

(* ---------------------------------------------------------------------- *)
(* Bounds of the model                                                     *)
(* ---------------------------------------------------------------------- *)
MaxUploads == 2
MaxFaults == 1
MaxSkew == 1
MaxIndex == 11
MaxFiles == 2

(* ---------------------------------------------------------------------- *)
(* Program constants                                                       *)
(* ---------------------------------------------------------------------- *)
MaximumAttempts == 3
StatusMaximumAttempts == 5
SegmentSize == 10
SegmentURLHours == 1
MasterURLHours == 24
StatusOK == 200
StatusTemporaryRedirect == 307
StatusNotFound == 404
StatusInternalServerError == 500
DefaultLimit == 10
DefaultOffset == 0
StageInitialInterval == 60
StageMaximumInterval == 600
StatusInitialInterval == 1
StatusMaximumInterval == 10
BackoffCoefficient == 2

\* os.TempDir() and its base name; directories are <<prefix, video id, suffix>>
TempDirName == "tmp"
NoID == <<0, TempDirName>>
TempDir == <<TempDirName, NoID, 0>>
NoDir == <<"none", NoID, 0>>
NoPath == <<NoDir, <<NoID, "">>>>

\* header.Filename values a client may send
FileNames == {"movie.mp4"}

\* filepath.Ext of the client file names
Ext(name) == IF name = "movie.mp4" THEN ".mp4" ELSE ""

\* strings.TrimSuffix(name, filepath.Ext(name))
Title(name) == IF name = "movie.mp4" THEN "movie" ELSE name

\* ffmpeg.resolutions of the configuration: ordered ladders
R1080 == [Width |-> 1920, Height |-> 1080, Bitrate |-> "5000k"]
R720 == [Width |-> 1280, Height |-> 720, Bitrate |-> "2500k"]
R720b == [Width |-> 1280, Height |-> 720, Bitrate |-> "3000k"]
Ladders == {<<R1080, R720, R720b>>}

(* ---------------------------------------------------------------------- *)
(* State                                                                   *)
(* ---------------------------------------------------------------------- *)
VARIABLES now, reqs, dirs, files, videos, streams, wfs, resolutions, faults,
          cache, resp, sup

vars == <<now, reqs, dirs, files, videos, streams, wfs, resolutions, faults,
          cache, resp, sup>>

(* ---------------------------------------------------------------------- *)
(* Paths                                                                   *)
(* ---------------------------------------------------------------------- *)
\* filepath.Join(dir, base)
Join(dir, base) == <<dir, base>>

\* filepath.Dir(path)
Dir(path) == path[1]

\* filepath.Base(objectKey)
Base(objectKey) == objectKey[3]

\* os.MkdirTemp("", prefix): a directory name not in use
MkdirTemp(prefix, id) ==
    LET n == CHOOSE k \in 1..(Cardinality(dirs) + 1) :
                 /\ <<prefix, id, k>> \notin dirs
                 /\ \A j \in 1..(k - 1) : <<prefix, id, j>> \in dirs
    IN <<prefix, id, n>>

(* ---------------------------------------------------------------------- *)
(* Uploader                                                                *)
(* ---------------------------------------------------------------------- *)
\* generateUniqueID at Unix second t: the second joined with the temp directory's name
generateUniqueID(t) == <<t, TempDirName>>

\* fmt.Sprintf("uploads/%s/%s", videoID, filename), filename = videoID + ext
ObjectKeyOf(videoID, ext) == <<"uploads", videoID, <<videoID, ext>>>>

\* filepath.Join(os.TempDir(), filename) of UploadVideo
TempFile(videoID, name) == Join(TempDir, <<videoID, Ext(name)>>)

\* client.StartWorkflowOptions.ID
WorkflowID(videoID) == <<"transcode-", videoID>>

\* the execution of TranscodeWorkflow at its first activity
NewRun(wid, videoID, objectKey, filename) ==
    [wid |-> wid, VideoID |-> videoID, ObjectKey |-> objectKey, Filename |-> filename,
     pc |-> "st_processing", attempt |-> 1, localPath |-> NoPath, out |-> <<>>,
     failed |-> "none", statusFailed |-> FALSE, crashed |-> FALSE, trouble |-> "none",
     waited |-> 0, Duration |-> 0, status |-> "open"]

\* a request that starts a new execution whatever is running
StartWorkflowAlways(w, run) == Append(w, run)

\* ExecuteWorkflow with a fixed workflow id: an id with an open execution
\* starts nothing, the caller gets the running execution
StartWorkflow(w, run) ==
    IF \E k \in 1..Len(w) : w[k].wid = run.wid /\ w[k].status = "open"
    THEN w
    ELSE Append(w, run)

NReqs == Len(reqs)

\* a failure injected by a collaborator or by a crash, within the budget
Fault == faults < MaxFaults /\ faults' = faults + 1

NoFault == faults' = faults

\* UploadVideo up to storageService.UploadFile; its failure returns an error
\* (t is time.Now().Unix(): the second of the previous upload or a later one)
\* and the deferred os.Remove drops the temporary copy
UploadBegin(name, t) ==
    /\ NReqs < MaxUploads
    /\ t \in {now, now + 1} \ {0}
    /\ now' = t
    /\ LET id == generateUniqueID(t)
       IN \/ /\ reqs' = Append(reqs, [pc |-> "start", videoID |-> id,
                                      header |-> name, scheduled |-> FALSE])
             /\ files' = files \cup {TempFile(id, name)}
             /\ NoFault
          \/ /\ reqs' = Append(reqs, [pc |-> "failed", videoID |-> id,
                                      header |-> name, scheduled |-> FALSE])
             /\ files' = files \ {TempFile(id, name)}
             /\ Fault
    /\ UNCHANGED <<dirs, videos, streams, wfs, resolutions>>

\* temporalClient.ExecuteWorkflow; an error is logged and ignored
UploadStart(r) ==
    /\ r \in 1..NReqs
    /\ reqs[r].pc = "start"
    /\ LET id == reqs[r].videoID
           key == ObjectKeyOf(id, Ext(reqs[r].header))
       IN \/ /\ wfs' = StartWorkflow(wfs, NewRun(WorkflowID(id), id, key, reqs[r].header))
             /\ reqs' = [reqs EXCEPT ![r].pc = "respond", ![r].scheduled = TRUE]
             /\ NoFault
          \/ /\ wfs' = wfs
             /\ reqs' = [reqs EXCEPT ![r].pc = "respond"]
             /\ Fault
    /\ UNCHANGED <<now, dirs, files, videos, streams, resolutions>>

\* the success response and the deferred os.Remove(tempFile)
UploadRespond(r) ==
    /\ r \in 1..NReqs
    /\ reqs[r].pc = "respond"
    /\ reqs' = [reqs EXCEPT ![r].pc = "uploaded"]
    /\ files' = files \ {TempFile(reqs[r].videoID, reqs[r].header)}
    /\ UNCHANGED <<now, dirs, videos, streams, wfs, resolutions, faults>>

(* ---------------------------------------------------------------------- *)
(* Catalog Store                                                           *)
(* ---------------------------------------------------------------------- *)
\* Database.CreateVideo: a plain INSERT, the primary key rejects a second row
CreateVideoOk(v, id) == id \notin DOMAIN v

CreateVideo(v, id, row) ==
    [x \in (DOMAIN v) \cup {id} |-> IF x = id THEN row ELSE v[x]]

\* Database.UpdateVideoStatus: UPDATE ... WHERE id = $2, no row is no error
UpdateVideoStatus(v, id, status, t) ==
    IF id \in DOMAIN v
    THEN [v EXCEPT ![id].processing_state = status, ![id].updated_at = t]
    ELSE v

\* NOW() of the database server, whose clock is not the worker's: what it may
\* read when the worker's clock reads now
DatabaseNow == {t \in 0..now : t + MaxSkew >= now}

\* Database.GetVideo: pgx.ErrNoRows becomes "video not found"
GetVideoOk(v, id) == id \in DOMAIN v

(* ---------------------------------------------------------------------- *)
(* Workflow                                                                *)
(* ---------------------------------------------------------------------- *)
StatusStages == {"st_processing", "st_error", "st_completed"}

\* RetryPolicy.MaximumAttempts of the activity options in force
MaxAttemptsOf(pc) ==
    IF pc \in StatusStages THEN StatusMaximumAttempts ELSE MaximumAttempts

\* the temporal.RetryPolicy of the activity options in force, in seconds
RetryPolicyOf(pc) ==
    IF pc \in StatusStages
    THEN [InitialInterval |-> StatusInitialInterval, BackoffCoefficient |-> BackoffCoefficient,
          MaximumInterval |-> StatusMaximumInterval, MaximumAttempts |-> StatusMaximumAttempts]
    ELSE [InitialInterval |-> StageInitialInterval, BackoffCoefficient |-> BackoffCoefficient,
          MaximumInterval |-> StageMaximumInterval, MaximumAttempts |-> MaximumAttempts]

\* a retry policy whose interval never grows
RetryIntervalFixed(policy, n) == policy.InitialInterval

\* the wait a RetryPolicy puts before the retry that follows failed attempt n
RetryInterval(policy, n) ==
    LET grown == policy.InitialInterval * (policy.BackoffCoefficient ^ (n - 1))
    IN IF grown < policy.MaximumInterval THEN grown ELSE policy.MaximumInterval

\* the status updateVideoStatus writes at a workflow position
StatusOf(pc) ==
    CASE pc = "st_processing" -> "processing"
      [] pc = "st_error" -> "error"
      [] OTHER -> "completed"

\* a workflow that starts Transcode straight after Download
NextOnOkSkipAnalyze(pc) ==
    CASE pc = "st_processing" -> "download"
      [] pc = "download" -> "transcode"
      [] pc = "analyze" -> "transcode"
      [] pc = "transcode" -> "cleanup"
      [] pc = "cleanup" -> "st_completed"
      [] OTHER -> "done"

\* TranscodeWorkflow: where the workflow goes when an activity succeeded
NextOnOk(pc) ==
    CASE pc = "st_processing" -> "download"
      [] pc = "download" -> "analyze"
      [] pc = "analyze" -> "transcode"
      [] pc = "transcode" -> "cleanup"
      [] pc = "cleanup" -> "st_completed"
      [] pc = "st_completed" -> "done"
      [] OTHER -> "done"

\* a workflow that swallows a Transcode failure the way it swallows Cleanup's
NextOnFailSwallow(pc) ==
    CASE pc \in {"download", "analyze"} -> "st_error"
      [] pc = "transcode" -> "cleanup"
      [] pc = "cleanup" -> "st_completed"
      [] OTHER -> "done"

\* a workflow that treats a Cleanup failure like any other stage failure
NextOnFailFatalCleanup(pc) ==
    CASE pc \in {"download", "analyze", "transcode", "cleanup"} -> "st_error"
      [] OTHER -> "done"

\* TranscodeWorkflow: where the workflow goes when an activity failed for good
NextOnFail(pc) ==
    CASE pc \in {"download", "analyze", "transcode"} -> "st_error"
      [] pc = "cleanup" -> "st_completed"
      [] OTHER -> "done"

\* TranscodeWorkflow returns: the workflow execution closes
Finish(run, ret) ==
    [run EXCEPT !.pc = "done", !.attempt = 0, !.trouble = "none", !.waited = 0,
                !.status = ret]

\* workflow.ExecuteActivity of the next activity, first attempt
Enter(run, pc) ==
    [run EXCEPT !.pc = pc, !.attempt = 1, !.trouble = "none", !.waited = 0]

\* the activity attempt returned nil: the workflow goes on
ActivityOk(run) ==
    IF NextOnOk(run.pc) = "done"
    THEN Finish(run, IF run.pc = "st_completed" THEN "ok" ELSE "err")
    ELSE Enter(run, NextOnOk(run.pc))

\* the activity attempt returned an error: retry, or Get returns the error
ActivityFailed(run) ==
    IF run.attempt < MaxAttemptsOf(run.pc)
    THEN [run EXCEPT !.attempt = @ + 1,
                     !.waited = RetryInterval(RetryPolicyOf(run.pc), run.attempt)]
    ELSE LET err == [run EXCEPT !.failed = IF run.pc \in StatusStages THEN @ ELSE run.pc,
                                !.statusFailed = IF run.pc \in StatusStages THEN TRUE ELSE @]
         IN IF NextOnFail(run.pc) = "done"
            THEN Finish(err, "err")
            ELSE Enter(err, NextOnFail(run.pc))

Open(w) == w \in 1..Len(wfs) /\ wfs[w].status = "open"

At(w, pc) == Open(w) /\ wfs[w].pc = pc

\* the attempt succeeds and its result reaches the workflow
Ok(w, run) == faults' = faults /\ wfs' = [wfs EXCEPT ![w] = ActivityOk(run)]

\* the attempt ends with an error a collaborator injected, or the worker
\* process dies during it and the attempt times out; the retries of one
\* activity that meet the same trouble share the charge of its first failure
Fail(w, kind) ==
    /\ IF wfs[w].trouble = kind THEN NoFault ELSE Fault
    /\ wfs' = [wfs EXCEPT ![w] =
                  ActivityFailed([wfs[w] EXCEPT !.trouble = kind,
                                                !.crashed = @ \/ kind = "crash"])]

\* the attempt ends before any effect: its first call fails, or the worker
\* dies as the attempt starts
FailAt(w, collaborator) == \E kind \in {collaborator, "crash"} : Fail(w, kind)

\* the attempt ends with an error the state itself causes
Reject(w) == NoFault /\ wfs' = [wfs EXCEPT ![w] = ActivityFailed(wfs[w])]

\* the worker dies after the attempt's last effect: the result never arrives
\* and the attempt counts as failed
Lost(w) == Fail(w, "crash")

\* updateVideoStatus: the activity calling Database.UpdateVideoStatus
StatusUpdate(w) ==
    /\ Open(w)
    /\ wfs[w].pc \in StatusStages
    /\ \/ /\ \E t \in DatabaseNow :
                videos' = UpdateVideoStatus(videos, wfs[w].VideoID, StatusOf(wfs[w].pc), t)
          /\ Ok(w, wfs[w])
       \/ /\ \E t \in DatabaseNow :
                videos' = UpdateVideoStatus(videos, wfs[w].VideoID, StatusOf(wfs[w].pc), t)
          /\ Lost(w)
       \/ /\ videos' = videos
          /\ FailAt(w, "catalog")
    /\ UNCHANGED <<now, reqs, dirs, files, streams, resolutions>>

(* ---------------------------------------------------------------------- *)
(* Ladder encode and publish                                               *)
(* ---------------------------------------------------------------------- *)
\* fmt.Sprintf("v%d", i), i counted from 0
VariantName(i) == <<"v", i>>

\* fmt.Sprintf("%s_%s.m3u8", segmentFilename, variantName)
PlaylistFile(segmentFilename, variantName) == <<segmentFilename, "_", variantName, ".m3u8">>

\* fmt.Sprintf("%dx%d", res.Width, res.Height)
ResolutionLabel(res) == <<res.Width, "x", res.Height>>

\* a key under the prefix of the uploads
StreamPathUploads(videoID, playlistFile) == <<"uploads", videoID, "hls", playlistFile>>

\* fmt.Sprintf("videos/%s/hls/%s", params.VideoID, playlistFile)
StreamPath(videoID, playlistFile) == <<"videos", videoID, "hls", playlistFile>>

\* the database.VideoStream TranscodeVideoActivity builds for ladder index i
StreamRow(videoID, i, res) ==
    [id |-> <<videoID, "-", VariantName(i)>>, video_id |-> videoID,
     resolution |-> ResolutionLabel(res), bitrate |-> res.Bitrate, format |-> "hls",
     path |-> StreamPath(videoID, PlaylistFile(videoID, VariantName(i))),
     size |-> 0, segment_size |-> SegmentSize]

\* the StreamInfo appended to TranscodeResult.Streams for ladder index i
StreamInfoOf(videoID, i, res) ==
    [Resolution |-> ResolutionLabel(res), Bitrate |-> res.Bitrate, Format |-> "hls",
     Path |-> StreamPath(videoID, PlaylistFile(videoID, VariantName(i))),
     Size |-> 0, SegmentSize |-> SegmentSize]

\* the row the ON CONFLICT (video_id, resolution, format) clause arbitrates on
Conflicting(rows, s) ==
    {c \in rows : c.video_id = s.video_id /\ c.resolution = s.resolution
                  /\ c.format = s.format}

\* Database.AddVideoStream fails: foreign key, or primary key outside the arbiter
AddVideoStreamOk(rows, v, s) ==
    /\ s.video_id \in DOMAIN v
    /\ \/ Conflicting(rows, s) # {}
       \/ \A c \in rows : c.id # s.id

\* DO UPDATE SET path, size, segment_size of the conflicting row
Upserted(c, s) ==
    [c EXCEPT !.path = s.path, !.size = s.size, !.segment_size = s.segment_size]

\* an INSERT without the ON CONFLICT clause taking effect
AddVideoStreamAppend(rows, s) == rows \cup {s}

\* Database.AddVideoStream: INSERT ... ON CONFLICT ... DO UPDATE
AddVideoStream(rows, s) ==
    IF Conflicting(rows, s) # {}
    THEN (rows \ Conflicting(rows, s)) \cup {Upserted(c, s) : c \in Conflicting(rows, s)}
    ELSE rows \cup {s}

\* the loop over the ladder from index i, stopping before index stop or at the
\* first AddVideoStream that fails; n is the index reached
RECURSIVE Publish(_, _, _, _, _, _)
Publish(rows, v, videoID, ladder, i, stop) ==
    IF i >= stop \/ ~AddVideoStreamOk(rows, v, StreamRow(videoID, i, ladder[i + 1]))
    THEN [rows |-> rows, n |-> i]
    ELSE Publish(AddVideoStream(rows, StreamRow(videoID, i, ladder[i + 1])),
                 v, videoID, ladder, i + 1, stop)

\* TranscodeResult.Streams after the loop over the ladder
Descriptors(videoID, ladder) ==
    [k \in 1..Len(ladder) |-> StreamInfoOf(videoID, k - 1, ladder[k])]

\* the line the %d verb prints for the string res.Bitrate
BadVerb(x) == <<"%!d(string=", x, ")">>

\* FFmpeg.TranscodeToHLS: the master playlist text built in the strings.Builder
MasterPlaylistContent(segmentFilename, ladder) ==
    <<"#EXTM3U", "#EXT-X-VERSION:3">> \o
    [k \in 1..(2 * Len(ladder)) |->
        IF k % 2 = 1
        THEN <<"#EXT-X-STREAM-INF:BANDWIDTH=", BadVerb(ladder[(k + 1) \div 2].Bitrate),
               ",RESOLUTION=", ResolutionLabel(ladder[(k + 1) \div 2])>>
        ELSE PlaylistFile(segmentFilename, VariantName((k \div 2) - 1))]

\* the files one FFmpeg invocation is told to write into outputDir
VariantFiles(outputDir, segmentFilename, ladder) ==
    {Join(outputDir, PlaylistFile(segmentFilename, VariantName(k - 1))) : k \in 1..Len(ladder)}

\* the files FFmpeg.TranscodeToHLS leaves behind on success
TranscodeToHLSFiles(outputDir, segmentFilename, ladder) ==
    VariantFiles(outputDir, segmentFilename, ladder)

\* an input path built from the uploaded file's own name, not from the key
InputFileShared(run) ==
    Join(Dir(Join(TempDir, <<"transcode-", run.VideoID>>)), <<NoID, Ext(run.Filename)>>)

\* TranscodeVideoActivity: the input file path handed to FFmpeg
InputFile(run) ==
    Join(Dir(Join(TempDir, <<"transcode-", run.VideoID>>)), Base(run.ObjectKey))

(* ---------------------------------------------------------------------- *)
(* Activities: one action per attempt, one disjunct per place it can end   *)
(* ---------------------------------------------------------------------- *)
\* the database.Video DownloadVideoActivity builds
VideoRow(run, t) ==
    [processing_state |-> "downloading", title |-> Title(run.Filename),
     original_name |-> run.Filename, original_path |-> run.ObjectKey, duration |-> 0,
     created_at |-> t, updated_at |-> t]

\* DownloadVideoActivity: MkdirTemp, Storage.DownloadFile, DB.CreateVideo
DownloadVideo(w) ==
    /\ At(w, "download")
    /\ LET run == wfs[w]
           tempDir == MkdirTemp("transcode-", run.VideoID)
           localPath == Join(tempDir, Base(run.ObjectKey))
       IN \/ /\ FailAt(w, "disk")
             /\ UNCHANGED <<dirs, files, videos>>
          \/ /\ dirs' = dirs \cup {tempDir}
             /\ Fail(w, "storage")
             /\ UNCHANGED <<files, videos>>
          \/ /\ dirs' = dirs \cup {tempDir}
             /\ files' = files \cup {localPath}
             /\ IF CreateVideoOk(videos, run.VideoID) THEN Fail(w, "catalog") ELSE Reject(w)
             /\ UNCHANGED videos
          \/ /\ CreateVideoOk(videos, run.VideoID)
             /\ dirs' = dirs \cup {tempDir}
             /\ files' = files \cup {localPath}
             /\ videos' = CreateVideo(videos, run.VideoID, VideoRow(run, now))
             /\ \/ Ok(w, [run EXCEPT !.localPath = localPath])
                \/ Lost(w)
    /\ UNCHANGED <<now, reqs, streams, resolutions>>

\* the running time in seconds FFmpeg prints on stderr for an input file
MediaDuration(name) == IF name = "movie.mp4" THEN 42 ELSE 0

\* FFmpeg.GetMediaInfo: runs FFmpeg, parses nothing, returns the empty map
GetMediaInfo(inputFile) == [k \in {} |-> 0]

\* ExtractMetadataActivity: the duration taken from the info map
ProbedDuration(info) == IF "duration" \in DOMAIN info THEN info["duration"] ELSE 0

\* ExtractMetadataActivity: GetMediaInfo never fails and reports no duration,
\* then the status update
ExtractMetadata(w) ==
    /\ At(w, "analyze")
    /\ \/ /\ FailAt(w, "catalog")
          /\ UNCHANGED videos
       \/ /\ \E t \in DatabaseNow :
                videos' = UpdateVideoStatus(videos, wfs[w].VideoID, "analyzing", t)
          /\ \/ Ok(w, [wfs[w] EXCEPT
                           !.Duration = ProbedDuration(GetMediaInfo(wfs[w].localPath))])
             \/ Lost(w)
    /\ UNCHANGED <<now, reqs, dirs, files, streams, resolutions>>

\* TranscodeVideoActivity: GetVideo, the status update, MkdirTemp, FFmpeg for
\* the whole ladder, then one AddVideoStream per ladder entry
TranscodeVideo(w) ==
    /\ At(w, "transcode")
    /\ LET run == wfs[w]
           outputDir == MkdirTemp("output-", run.VideoID)
           encoded == files \cup TranscodeToHLSFiles(outputDir, run.VideoID, resolutions)
           all == Publish(streams, videos, run.VideoID, resolutions, 0, Len(resolutions))
       IN \/ /\ IF GetVideoOk(videos, run.VideoID) THEN FailAt(w, "catalog") ELSE Reject(w)
             /\ UNCHANGED <<dirs, files, videos, streams>>
          \/ /\ GetVideoOk(videos, run.VideoID)
             /\ \E t \in DatabaseNow :
                   videos' = UpdateVideoStatus(videos, run.VideoID, "transcoding", t)
             /\ \/ /\ Fail(w, "disk")
                   /\ UNCHANGED <<dirs, files, streams>>
                \/ /\ dirs' = dirs \cup {outputDir}
                   /\ IF InputFile(run) \in files THEN Fail(w, "codec") ELSE Reject(w)
                   /\ UNCHANGED <<files, streams>>
                \/ /\ InputFile(run) \in files
                   /\ dirs' = dirs \cup {outputDir}
                   /\ files' = encoded
                   /\ \/ \E k \in 0..(Len(resolutions) - 1) :
                            /\ Publish(streams, videos, run.VideoID, resolutions, 0, k).n = k
                            /\ streams' = Publish(streams, videos, run.VideoID,
                                                  resolutions, 0, k).rows
                            /\ IF AddVideoStreamOk(streams', videos,
                                                   StreamRow(run.VideoID, k, resolutions[k + 1]))
                               THEN Fail(w, "catalog") ELSE Reject(w)
                      \/ /\ all.n = Len(resolutions)
                         /\ streams' = all.rows
                         /\ \/ Ok(w, [run EXCEPT !.out = Descriptors(run.VideoID, resolutions)])
                            \/ Lost(w)
    /\ UNCHANGED <<now, reqs, resolutions>>

\* CleanupActivity: os.RemoveAll(filepath.Dir(localPath))
Cleanup(w) ==
    /\ At(w, "cleanup")
    /\ \/ /\ FailAt(w, "disk")
          /\ UNCHANGED <<dirs, files>>
       \/ /\ dirs' = dirs \ {Dir(wfs[w].localPath)}
          /\ files' = {f \in files : Dir(f) # Dir(wfs[w].localPath)}
          /\ \/ Ok(w, wfs[w])
             \/ Lost(w)
    /\ UNCHANGED <<now, reqs, videos, streams, resolutions>>

(* ---------------------------------------------------------------------- *)
(* Streamer: the cache gateway and the video detail                        *)
(* ---------------------------------------------------------------------- *)
\* a file name of a request is the sequence of its characters
M3U8 == <<".", "m", "3", "u", "8">>

PlaylistName == <<"a">> \o M3U8

SegmentName == <<"a", ".", "t", "s">>

FragmentName == <<"a", ".", "m", "p", "4">>

ManifestName == <<"m", "a", "n", "i", "f", "e", "s", "t", ".", "m", "p", "d">>

RequestNames == {PlaylistName, M3U8, SegmentName, FragmentName, ManifestName}

RequestIDs == {generateUniqueID(1), generateUniqueID(2)}

\* isM3U8File: len(filename) > 5 && filename[len(filename)-5:] == ".m3u8"
isM3U8File(filename) ==
    Len(filename) > 5 /\ SubSeq(filename, Len(filename) - 4, Len(filename)) = M3U8

\* fmt.Sprintf("videos/%s/<format>/%s", videoID, filename)
ServedKey(videoID, format, filename) == <<"videos", videoID, format, filename>>

\* "hls:" + objectKey, "dash:" + objectKey
CacheKey(format, objectKey) == <<format, ":", objectKey>>

\* StorageService.GetSignedURL: the presigned GET of the key, valid for hours
GetSignedURL(objectKey, hours) == <<"signed", objectKey, hours>>

NoURL == <<"", <<>>, 0>>

NoQuery == [limit |-> <<>>, offset |-> <<>>]

NoRequest == [op |-> "none", videoID |-> NoID, filename |-> <<>>,
              redisUp |-> TRUE, signOk |-> TRUE, catalog |-> "ok", query |-> NoQuery]

NoResponse ==
    [req |-> NoRequest, status |-> 0, kind |-> "none", contentType |-> "",
     body |-> "", location |-> NoURL, detail |-> <<>>]

\* h.Redis.Get(...).Result(): err == nil && cachedContent != ""
CacheHit(c, key, redisUp) == redisUp /\ key \in DOMAIN c /\ c[key] # ""

\* w.Write([]byte(cachedContent)) with the Content-Type header set before it
ServeCached(req, contentType, content) ==
    [NoResponse EXCEPT !.req = req, !.status = StatusOK, !.kind = "bytes",
                       !.contentType = contentType, !.body = content]

\* a redirect signed with the TTL of the master manifests
ServeSignedDay(req, objectKey) ==
    IF req.signOk
    THEN [NoResponse EXCEPT !.req = req, !.status = StatusTemporaryRedirect,
                            !.kind = "redirect",
                            !.location = GetSignedURL(objectKey, MasterURLHours)]
    ELSE [NoResponse EXCEPT !.req = req, !.status = StatusInternalServerError,
                            !.kind = "error"]

\* the signed-URL path of ServeHLSFile and ServeDASHFile
ServeSigned(req, objectKey) ==
    IF req.signOk
    THEN [NoResponse EXCEPT !.req = req, !.status = StatusTemporaryRedirect,
                            !.kind = "redirect",
                            !.location = GetSignedURL(objectKey, SegmentURLHours)]
    ELSE [NoResponse EXCEPT !.req = req, !.status = StatusInternalServerError,
                            !.kind = "error"]

\* a cache failure that fails the request
ServeFileStrict(c, req, format, contentType) ==
    LET objectKey == ServedKey(req.videoID, format, req.filename)
        cacheKey == CacheKey(format, objectKey)
    IN IF ~req.redisUp
       THEN [NoResponse EXCEPT !.req = req, !.status = StatusInternalServerError,
                               !.kind = "error"]
       ELSE IF CacheHit(c, cacheKey, req.redisUp)
       THEN ServeCached(req, contentType, c[cacheKey])
       ELSE ServeSigned(req, objectKey)

\* the body shared by ServeHLSFile and ServeDASHFile
ServeFile(c, req, format, contentType) ==
    LET objectKey == ServedKey(req.videoID, format, req.filename)
        cacheKey == CacheKey(format, objectKey)
    IN IF CacheHit(c, cacheKey, req.redisUp)
       THEN ServeCached(req, contentType, c[cacheKey])
       ELSE ServeSigned(req, objectKey)

\* StreamerHandler.ServeHLSFile
ServeHLSFileResponse(c, req) ==
    ServeFile(c, req, "hls",
              IF isM3U8File(req.filename) THEN "application/x-mpegURL" ELSE "video/MP2T")

\* StreamerHandler.ServeDASHFile
ServeDASHFileResponse(c, req) ==
    ServeFile(c, req, "dash",
              IF req.filename = ManifestName THEN "application/dash+xml" ELSE "video/mp4")

MasterName == <<"m", "a", "s", "t", "e", "r">> \o M3U8

\* the master playlist and manifest names GetVideoInfo signs
MasterFile(format) == IF format = "hls" THEN MasterName ELSE ManifestName

\* the loop of GetVideoInfo over the streams: the master URL of a format
MasterURL(rows, videoID, format, signOk) ==
    IF signOk /\ \E c \in rows : c.format = format /\ c.resolution = <<1920, "x", 1080>>
    THEN GetSignedURL(ServedKey(videoID, format, MasterFile(format)), MasterURLHours)
    ELSE NoURL

\* StreamerHandler.GetVideoInfo
GetVideoInfoResponse(v, allRows, req) ==
    LET rows == {c \in allRows : c.video_id = req.videoID}
    IN IF req.catalog = "GetVideo" \/ ~GetVideoOk(v, req.videoID)
       THEN [NoResponse EXCEPT !.req = req, !.status = StatusNotFound, !.kind = "error"]
       ELSE IF req.catalog = "GetVideoStreams"
       THEN [NoResponse EXCEPT !.req = req, !.status = StatusInternalServerError,
                               !.kind = "error"]
       ELSE [NoResponse EXCEPT
                !.req = req, !.status = StatusOK, !.kind = "json",
                !.contentType = "application/json",
                !.detail = <<[Title |-> v[req.videoID].title,
                              Duration |-> v[req.videoID].duration,
                              Status |-> v[req.videoID].processing_state,
                              Formats |-> {c.format : c \in rows},
                              HLSMaster |-> MasterURL(rows, req.videoID, "hls", req.signOk),
                              DASHMaster |-> MasterURL(rows, req.videoID, "dash", req.signOk),
                              Streams |-> rows]>>]

\* the query of the catalog that fails during a request, if any
CatalogOutcomes == {"ok", "GetVideo", "GetVideoStreams"}

Request(op, videoID, filename, redisUp, signOk, catalog) ==
    [op |-> op, videoID |-> videoID, filename |-> filename,
     redisUp |-> redisUp, signOk |-> signOk, catalog |-> catalog, query |-> NoQuery]

\* a handler that stores what it redirected to in the cache
ServeHLSFileCaching(videoID, filename, redisUp, signOk) ==
    LET req == Request("hls", videoID, filename, redisUp, signOk, "ok")
        key == CacheKey("hls", ServedKey(videoID, "hls", filename))
    IN /\ resp' = ServeHLSFileResponse(cache, req)
       /\ cache' = IF resp'.status = StatusTemporaryRedirect
                   THEN [k \in (DOMAIN cache) \cup {key} |->
                            IF k = key THEN "cached" ELSE cache[k]]
                   ELSE cache
       /\ UNCHANGED <<now, reqs, dirs, files, videos, streams, wfs, resolutions, faults,
                      sup>>

ServeHLSFile(videoID, filename, redisUp, signOk) ==
    /\ resp' = ServeHLSFileResponse(cache, Request("hls", videoID, filename,
                                                   redisUp, signOk, "ok"))
    /\ UNCHANGED <<now, reqs, dirs, files, videos, streams, wfs, resolutions, faults, cache, sup>>

ServeDASHFile(videoID, filename, redisUp, signOk) ==
    /\ resp' = ServeDASHFileResponse(cache, Request("dash", videoID, filename,
                                                    redisUp, signOk, "ok"))
    /\ UNCHANGED <<now, reqs, dirs, files, videos, streams, wfs, resolutions, faults, cache, sup>>

GetVideoInfo(videoID, signOk, catalog) ==
    /\ resp' = GetVideoInfoResponse(videos, streams,
                                    Request("detail", videoID, <<>>, TRUE, signOk, catalog))
    /\ UNCHANGED <<now, reqs, dirs, files, videos, streams, wfs, resolutions, faults, cache, sup>>

\* the texts a caller may send as the limit or the offset query parameter
QueryValues ==
    {<<>>, <<"0">>, <<"1">>, <<"2">>, <<"1", "0">>, <<"-", "1">>, <<"x">>, <<"2", "x">>}

DigitChars == {"0", "1", "2", "3", "4", "5", "6", "7", "8", "9"}

DigitValue(c) ==
    CASE c = "0" -> 0 [] c = "1" -> 1 [] c = "2" -> 2 [] c = "3" -> 3 [] c = "4" -> 4
      [] c = "5" -> 5 [] c = "6" -> 6 [] c = "7" -> 7 [] c = "8" -> 8 [] OTHER -> 9

\* the value of the decimal digits of text from position i, up to the first
\* character that is no digit
RECURSIVE ScanDigits(_, _, _)
ScanDigits(text, i, acc) ==
    IF i > Len(text) \/ text[i] \notin DigitChars
    THEN acc
    ELSE ScanDigits(text, i + 1, 10 * acc + DigitValue(text[i]))

\* fmt.Sscanf(text, "%d", &n): an optional sign and the leading digits; n keeps
\* its old value when there is no digit to read
Sscanf(text, old) ==
    LET signed == Len(text) > 0 /\ text[1] \in {"-", "+"}
        start == IF signed THEN 2 ELSE 1
    IN IF start > Len(text) \/ text[start] \notin DigitChars
       THEN old
       ELSE IF signed /\ text[1] = "-"
       THEN 0 - ScanDigits(text, start, 0)
       ELSE ScanDigits(text, start, 0)

\* a query that returns the oldest Video first
OrderedByCreatedAtAsc(v) ==
    {s \in [1..Cardinality(DOMAIN v) -> DOMAIN v] :
        /\ \A i, j \in DOMAIN s : i # j => s[i] # s[j]
        /\ \A i, j \in DOMAIN s : i < j => v[s[i]].created_at <= v[s[j]].created_at}

\* ORDER BY created_at DESC: the orders the database may return the rows in
OrderedByCreatedAtDesc(v) ==
    {s \in [1..Cardinality(DOMAIN v) -> DOMAIN v] :
        /\ \A i, j \in DOMAIN s : i # j => s[i] # s[j]
        /\ \A i, j \in DOMAIN s : i < j => v[s[i]].created_at >= v[s[j]].created_at}

\* the database refuses a negative LIMIT or OFFSET
DatabaseListVideosOk(limit, offset) == limit >= 0 /\ offset >= 0

\* Database.ListVideos: LIMIT $1 OFFSET $2 of the ordered rows
DatabaseListVideos(v, order, limit, offset) ==
    LET last == IF offset + limit < Len(order) THEN offset + limit ELSE Len(order)
    IN [k \in 1..(IF last > offset THEN last - offset ELSE 0) |->
           [ID |-> order[offset + k], Video |-> v[order[offset + k]]]]

\* json.Encoder.Encode of a []*Video: the nil slice is written as null
EncodeVideos(rows) == [null |-> rows = <<>>, items |-> rows]

\* StreamerHandler.ListVideos: the response
ListVideosResponse(v, order, req) ==
    LET limit == IF req.query.limit # <<>>
                 THEN Sscanf(req.query.limit, DefaultLimit) ELSE DefaultLimit
        offset == IF req.query.offset # <<>>
                  THEN Sscanf(req.query.offset, DefaultOffset) ELSE DefaultOffset
    IN IF req.catalog # "ok" \/ ~DatabaseListVideosOk(limit, offset)
       THEN [NoResponse EXCEPT !.req = req, !.status = StatusInternalServerError,
                               !.kind = "error"]
       ELSE [NoResponse EXCEPT
                !.req = req, !.status = StatusOK, !.kind = "json",
                !.contentType = "application/json",
                !.detail = <<[videos |-> EncodeVideos(DatabaseListVideos(v, order, limit, offset)),
                              pagination |-> [limit |-> limit, offset |-> offset]]>>]

ListVideos(limit, offset, dbUp) ==
    /\ \E order \in OrderedByCreatedAtDesc(videos) :
          resp' = ListVideosResponse(videos, order,
                      [Request("list", NoID, <<>>, TRUE, TRUE,
                               IF dbUp THEN "ok" ELSE "ListVideos")
                          EXCEPT !.query = [limit |-> limit, offset |-> offset]])
    /\ UNCHANGED <<now, reqs, dirs, files, videos, streams, wfs, resolutions, faults, cache, sup>>

\* what Redis may hold: nothing in the repository writes it
CachedKeys ==
    {CacheKey("hls", ServedKey(generateUniqueID(1), "hls", n)) : n \in RequestNames}
    \cup {CacheKey("dash", ServedKey(generateUniqueID(1), "dash", n)) : n \in RequestNames}

EmptyKey == CacheKey("hls", ServedKey(generateUniqueID(1), "hls", SegmentName))

NoCache == [k \in {} |-> ""]

Caches ==
    {NoCache, [k \in CachedKeys |-> IF k = EmptyKey THEN "" ELSE "cached"]}

\* catalogs the pipeline leaves: empty; a completed Video with its ladder; a
\* Video in error whose Transcode published one row; a Video in error, no
\* rows; two completed Videos downloaded in different seconds or in the same
CatalogOf(videos0, streams0, videoID, state, ladder, n, t) ==
    LET v == UpdateVideoStatus(
                 CreateVideo(videos0, videoID,
                             VideoRow(NewRun(WorkflowID(videoID), videoID,
                                             ObjectKeyOf(videoID, ".mp4"), "movie.mp4"), t)),
                 videoID, state, t)
    IN [videos |-> v, streams |-> Publish(streams0, v, videoID, ladder, 0, n).rows]

TwoVideos(ladder, t) ==
    LET first == CatalogOf(<<>>, {}, generateUniqueID(1), "completed", ladder, Len(ladder), t)
    IN CatalogOf(first.videos, first.streams, generateUniqueID(2), "completed",
                 ladder, Len(ladder), 2)

Catalogs(ladder) ==
    {[videos |-> <<>>, streams |-> {}],
     CatalogOf(<<>>, {}, generateUniqueID(1), "completed", ladder, Len(ladder), 1),
     CatalogOf(<<>>, {}, generateUniqueID(1), "error", ladder, 1, 1),
     CatalogOf(<<>>, {}, generateUniqueID(1), "error", ladder, 0, 1),
     TwoVideos(ladder, 1), TwoVideos(ladder, 2)}

(* ---------------------------------------------------------------------- *)
(* Supervisor: main, startService and stopServices of backend/main.go      *)
(* ---------------------------------------------------------------------- *)
\* the services slice of main, in its order
ServiceList == <<"uploader", "transcoder", "streamer">>

ServiceNames == {ServiceList[k] : k \in DOMAIN ServiceList}

\* a Service before its goroutine ran: Cmd is nil
NewService == [pc |-> "start", Cmd |-> FALSE, Process |-> "nil"]

\* main after startServices, blocked on the signal channel
NoSupervisor ==
    [services |-> [n \in ServiceNames |-> NewService], main |-> "serving", i |-> 1,
     kills |-> {}]

\* the program is alive: its goroutines run until main returns
Alive == sup.main # "returned"

\* startService: service.Cmd = exec.Command(...), then the two pipes
ExecCommand(n) ==
    /\ Alive
    /\ sup.services[n].pc = "start"
    /\ \E next \in {"ready", "end"} :
          sup' = [sup EXCEPT !.services[n].Cmd = TRUE, !.services[n].pc = next]
    /\ UNCHANGED <<now, reqs, dirs, files, videos, streams, wfs, resolutions, faults,
                   cache, resp>>

\* startService: service.Cmd.Start(), which sets Cmd.Process, or its failure
CmdStart(n) ==
    /\ Alive
    /\ sup.services[n].pc = "ready"
    /\ \/ sup' = [sup EXCEPT !.services[n].Process = "running", !.services[n].pc = "wait"]
       \/ sup' = [sup EXCEPT !.services[n].pc = "end"]
    /\ UNCHANGED <<now, reqs, dirs, files, videos, streams, wfs, resolutions, faults,
                   cache, resp>>

\* the child process ends by itself
ChildExits(n) ==
    /\ sup.services[n].Process = "running"
    /\ Alive
    /\ sup' = [sup EXCEPT !.services[n].Process = "exited"]
    /\ UNCHANGED <<now, reqs, dirs, files, videos, streams, wfs, resolutions, faults,
                   cache, resp>>

\* startService: service.Cmd.Wait() returns and the goroutine ends
CmdWait(n) ==
    /\ Alive
    /\ sup.services[n].pc = "wait"
    /\ sup.services[n].Process \in {"killed", "exited"}
    /\ sup' = [sup EXCEPT !.services[n].pc = "end"]
    /\ UNCHANGED <<now, reqs, dirs, files, videos, streams, wfs, resolutions, faults,
                   cache, resp>>

\* main: the signal arrives, srv.Shutdown, and the deferred stopServices begins
Shutdown ==
    /\ sup.main = "serving"
    /\ sup' = [sup EXCEPT !.main = "stopping", !.i = 1]
    /\ UNCHANGED <<now, reqs, dirs, files, videos, streams, wfs, resolutions, faults,
                   cache, resp>>

\* stopServices: one turn of the loop, the test of service.Cmd and
\* service.Cmd.Process and the start of the goroutine that kills
StopCheck ==
    /\ sup.main = "stopping"
    /\ LET n == ServiceList[sup.i]
           found == sup.services[n].Cmd /\ sup.services[n].Process # "nil"
       IN sup' = [sup EXCEPT !.kills = IF found THEN @ \cup {n} ELSE @,
                             !.i = @ + 1,
                             !.main = IF sup.i = Len(ServiceList) THEN "waiting" ELSE @]
    /\ UNCHANGED <<now, reqs, dirs, files, videos, streams, wfs, resolutions, faults,
                   cache, resp>>

\* stopServices: s.Cmd.Process.Kill() in its goroutine, then wg.Done
ProcessKill(n) ==
    /\ n \in sup.kills
    /\ sup' = [sup EXCEPT !.kills = @ \ {n},
                          !.services[n].Process = IF @ = "running" THEN "killed" ELSE @]
    /\ UNCHANGED <<now, reqs, dirs, files, videos, streams, wfs, resolutions, faults,
                   cache, resp>>

\* stopServices: wg.Wait() returns, stopServices and main return
StopReturn ==
    /\ sup.main = "waiting"
    /\ sup.kills = {}
    /\ sup' = [sup EXCEPT !.main = "returned"]
    /\ UNCHANGED <<now, reqs, dirs, files, videos, streams, wfs, resolutions, faults,
                   cache, resp>>

\* the supervisor alone, right after startServices
InitSupervisor ==
    /\ now = 0
    /\ reqs = <<>>
    /\ dirs = {}
    /\ files = {}
    /\ videos = <<>>
    /\ streams = {}
    /\ wfs = <<>>
    /\ resolutions \in Ladders
    /\ faults = 0
    /\ cache = NoCache
    /\ resp = NoResponse
    /\ sup = NoSupervisor

NextSupervisor ==
    \/ \E n \in ServiceNames : ExecCommand(n)
    \/ \E n \in ServiceNames : CmdStart(n)
    \/ \E n \in ServiceNames : ChildExits(n)
    \/ \E n \in ServiceNames : CmdWait(n)
    \/ Shutdown
    \/ StopCheck
    \/ \E n \in ServiceNames : ProcessKill(n)
    \/ StopReturn

SupervisorSpec == InitSupervisor /\ [][NextSupervisor]_vars

(* ---------------------------------------------------------------------- *)
(* Specification                                                           *)
(* ---------------------------------------------------------------------- *)
Init ==
    /\ now = 0
    /\ reqs = <<>>
    /\ dirs = {}
    /\ files = {}
    /\ videos = <<>>
    /\ streams = {}
    /\ wfs = <<>>
    /\ resolutions \in Ladders
    /\ faults = 0
    /\ cache = NoCache
    /\ resp = NoResponse
    /\ sup = NoSupervisor

Next ==
    \/ \E name \in FileNames, t \in 1..MaxUploads : UploadBegin(name, t) /\ UNCHANGED <<cache, resp, sup>>
    \/ \E r \in 1..NReqs : UploadStart(r) /\ UNCHANGED <<cache, resp, sup>>
    \/ \E r \in 1..NReqs : UploadRespond(r) /\ UNCHANGED <<cache, resp, sup>>
    \/ \E w \in 1..Len(wfs) : StatusUpdate(w) /\ UNCHANGED <<cache, resp, sup>>
    \/ \E w \in 1..Len(wfs) : DownloadVideo(w) /\ UNCHANGED <<cache, resp, sup>>
    \/ \E w \in 1..Len(wfs) : ExtractMetadata(w) /\ UNCHANGED <<cache, resp, sup>>
    \/ \E w \in 1..Len(wfs) : TranscodeVideo(w) /\ UNCHANGED <<cache, resp, sup>>
    \/ \E w \in 1..Len(wfs) : Cleanup(w) /\ UNCHANGED <<cache, resp, sup>>

Spec == Init /\ [][Next]_vars

\* the streamer alone, over a catalog the pipeline left and a cache as found
InitGateway ==
    /\ now = 0
    /\ reqs = <<>>
    /\ dirs = {}
    /\ files = {}
    /\ wfs = <<>>
    /\ resolutions \in Ladders
    /\ faults = 0
    /\ \E cat \in Catalogs(resolutions) : videos = cat.videos /\ streams = cat.streams
    /\ cache \in Caches
    /\ resp = NoResponse
    /\ sup = NoSupervisor

NextGateway ==
    \/ \E id \in RequestIDs, n \in RequestNames, up \in BOOLEAN, ok \in BOOLEAN :
          ServeHLSFile(id, n, up, ok)
    \/ \E id \in RequestIDs, n \in RequestNames, up \in BOOLEAN, ok \in BOOLEAN :
          ServeDASHFile(id, n, up, ok)
    \/ \E id \in RequestIDs, ok \in BOOLEAN, q \in CatalogOutcomes : GetVideoInfo(id, ok, q)
    \/ \E limit \in QueryValues, offset \in QueryValues, up \in BOOLEAN :
          ListVideos(limit, offset, up)

GatewaySpec == InitGateway /\ [][NextGateway]_vars

(* ---------------------------------------------------------------------- *)
(* File names of one encode, as the text fmt.Sprintf and FFmpeg produce    *)
(* ---------------------------------------------------------------------- *)
DigitText == <<"0", "1", "2", "3", "4", "5", "6", "7", "8", "9">>

\* the %d verb for a number that is not negative
RECURSIVE FormatInt(_)
FormatInt(n) ==
    IF n < 10 THEN <<DigitText[n + 1]>>
    ELSE FormatInt(n \div 10) \o <<DigitText[(n % 10) + 1]>>

\* the %03d of the segment pattern: at least three digits, zeros in front
Pad3(n) ==
    LET t == FormatInt(n)
    IN IF Len(t) >= 3 THEN t
       ELSE IF Len(t) = 2 THEN <<"0">> \o t ELSE <<"0", "0">> \o t

\* the video id as text: fmt.Sprintf("%d-%s", seconds, name of the temp dir)
IDText(videoID) == FormatInt(videoID[1]) \o <<"-", "t", "m", "p">>

\* fmt.Sprintf("v%d", i) as text
VariantText(i) == <<"v">> \o FormatInt(i)

\* fmt.Sprintf("%s_%s.m3u8", segmentFilename, variantName) as text
PlaylistFileName(segmentFilename, variantName) ==
    segmentFilename \o <<"_">> \o variantName \o M3U8

\* the literal parts of the key formats, as text
TextOf(word) ==
    CASE word = "videos" -> <<"v", "i", "d", "e", "o", "s">>
      [] word = "uploads" -> <<"u", "p", "l", "o", "a", "d", "s">>
      [] word = "hls" -> <<"h", "l", "s">>
      [] OTHER -> <<"d", "a", "s", "h">>

\* the playlistFile of TranscodeVideoActivity and of TranscodeToHLS as text
PlaylistFileText(playlistFile) ==
    PlaylistFileName(IDText(playlistFile[1]), VariantText(playlistFile[3][2]))

\* the streamPath TranscodeVideoActivity stores, as text
StreamPathText(path) ==
    TextOf(path[1]) \o <<"/">> \o IDText(path[2]) \o <<"/">> \o TextOf(path[3])
    \o <<"/">> \o PlaylistFileText(path[4])

\* the objectKey ServeHLSFile and ServeDASHFile compute, as text
ServedKeyText(objectKey) ==
    TextOf(objectKey[1]) \o <<"/">> \o IDText(objectKey[2]) \o <<"/">> \o TextOf(objectKey[3])
    \o <<"/">> \o objectKey[4]

\* a segment pattern with nothing between the variant name and the number
SegmentFileNameUnseparated(segmentFilename, variantName, n) ==
    segmentFilename \o <<"_">> \o variantName \o Pad3(n) \o <<".", "t", "s">>

\* fmt.Sprintf("%s_%s_%%03d.ts", segmentFilename, variantName), with the
\* segment number FFmpeg puts in place of %03d
SegmentFileName(segmentFilename, variantName, n) ==
    segmentFilename \o <<"_">> \o variantName \o <<"_">> \o Pad3(n) \o <<".", "t", "s">>

\* the ladder indices and the segment numbers an encode is followed for
Indices == 0..MaxIndex

SegmentNumbers == {0, 999, 1000}

\* the output directory of the one encode, and the Video it is for
EncodedID == generateUniqueID(now)

OutputDir == <<"output-", EncodedID, 1>>

\* FFmpeg writes the playlist of ladder entry i into the output directory
WritePlaylist(i) ==
    /\ Cardinality(files) < MaxFiles
    /\ files' = files \cup {Join(OutputDir, PlaylistFileName(IDText(EncodedID), VariantText(i)))}
    /\ UNCHANGED <<now, reqs, dirs, videos, streams, wfs, resolutions, faults, cache, resp,
                 sup>>

\* FFmpeg writes segment n of ladder entry i into the output directory
WriteSegment(i, n) ==
    /\ Cardinality(files) < MaxFiles
    /\ files' = files \cup
                    {Join(OutputDir, SegmentFileName(IDText(EncodedID), VariantText(i), n))}
    /\ UNCHANGED <<now, reqs, dirs, videos, streams, wfs, resolutions, faults, cache, resp,
                 sup>>

\* one encode alone: an output directory that FFmpeg fills
InitEncode ==
    /\ now \in 1..MaxUploads
    /\ reqs = <<>>
    /\ dirs = {OutputDir}
    /\ files = {}
    /\ videos = <<>>
    /\ streams = {}
    /\ wfs = <<>>
    /\ resolutions \in Ladders
    /\ faults = 0
    /\ cache = NoCache
    /\ resp = NoResponse
    /\ sup = NoSupervisor

NextEncode ==
    \/ \E i \in Indices : WritePlaylist(i)
    \/ \E i \in Indices, n \in SegmentNumbers : WriteSegment(i, n)

EncodeSpec == InitEncode /\ [][NextEncode]_vars

(* ---------------------------------------------------------------------- *)
(* Properties                                                              *)
(* ---------------------------------------------------------------------- *)
Runs == 1..Len(wfs)

HasRow(id) == id \in DOMAIN videos

StateOf(id) == videos[id].processing_state

RowsOf(id) == {c \in streams : c.video_id = id}

ProcessingStates ==
    {"received", "downloading", "analyzing", "transcoding", "completed", "error"}

ForwardStep(a, b) ==
    /\ a \notin {"completed", "error"}
    /\ \/ b = "error"
       \/ <<a, b>> \in {<<"received", "downloading">>, <<"downloading", "analyzing">>,
                        <<"analyzing", "transcoding">>, <<"transcoding", "completed">>}

FatalStages == {"download", "analyze", "transcode"}

N == Len(resolutions)

\* C1: every stored processing_state is one of the six states, and every
\* change of it is a step of the forward path or a step to error, never a
\* step out of completed or error.
C1_ForwardPath ==
    [][\A id \in DOMAIN videos' :
          /\ videos'[id].processing_state \in ProcessingStates
          /\ id \in DOMAIN videos =>
                \/ videos'[id].processing_state = videos[id].processing_state
                \/ ForwardStep(videos[id].processing_state,
                               videos'[id].processing_state)]_vars

C3_ErrorRowAfterFailure ==
    \A w \in Runs :
        (wfs[w].pc = "done" /\ wfs[w].failed \in FatalStages /\ ~wfs[w].statusFailed)
            => (HasRow(wfs[w].VideoID) /\ StateOf(wfs[w].VideoID) = "error")

\* C4: after a stage failed for good the run only writes the error status and
\* ends: no later stage, no completed status, no success, no resume.
C4_HaltAfterFailure ==
    [][\A w \in Runs :
          /\ wfs[w].failed \in FatalStages =>
                /\ wfs'[w].pc \in {"st_error", "done"}
                /\ wfs'[w].status # "ok"
                /\ wfs'[w] # wfs[w] =>
                      /\ dirs' = dirs /\ files' = files /\ streams' = streams
                      /\ HasRow(wfs[w].VideoID) =>
                            videos'[wfs[w].VideoID].processing_state # "completed"
          /\ wfs[w].pc = "done" => wfs'[w] = wfs[w]]_vars

\* a run that ended after its Transcode stage failed for good
C4_Witness ==
    \E w \in Runs :
        wfs[w].pc = "done" /\ wfs[w].failed = "transcode" /\ wfs[w].status = "err"

\* C5: the stages of a run start in the order Download, Analyze, Transcode,
\* Cleanup, each first attempt finding the state its predecessor committed.
C5_StagesInOrder ==
    \A w \in Runs :
        /\ (wfs[w].pc = "analyze" /\ wfs[w].attempt = 1)
              => (HasRow(wfs[w].VideoID) /\ StateOf(wfs[w].VideoID) = "downloading"
                  /\ wfs[w].localPath # NoPath)
        /\ (wfs[w].pc = "transcode" /\ wfs[w].attempt = 1)
              => (HasRow(wfs[w].VideoID) /\ StateOf(wfs[w].VideoID) = "analyzing")
        /\ wfs[w].pc = "cleanup"
              => (HasRow(wfs[w].VideoID) /\ StateOf(wfs[w].VideoID) = "transcoding"
                  /\ Len(wfs[w].out) = N)

\* a run whose first three stages succeeded is at Cleanup
C5_Witness == \E w \in Runs : wfs[w].pc = "cleanup" /\ wfs[w].attempt = 1

\* C6: a run that lost an attempt to a worker crash, and whose status writes
\* were all accepted, ends with a Video row in completed or error.
C6_CrashedRunEndsTerminal ==
    \A w \in Runs :
        (wfs[w].pc = "done" /\ wfs[w].crashed /\ ~wfs[w].statusFailed)
            => (HasRow(wfs[w].VideoID)
                /\ StateOf(wfs[w].VideoID) \in {"completed", "error"})

\* the rows of a Video are what one pass over the ladder leaves
FullLadder(id) ==
    /\ RowsOf(id) # {}
    /\ Publish(streams \ RowsOf(id), videos, id, resolutions, 0, N) =
          [rows |-> streams, n |-> N]

KeysUnique(rows) ==
    \A c, d \in rows :
        (c.video_id = d.video_id /\ c.resolution = d.resolution /\ c.format = d.format)
            => c = d

\* the output directories of a Video that hold encoded playlists
EncodedDirs(id) == {d \in dirs : d[1] = "output-" /\ d[2] = id /\ \E f \in files : Dir(f) = d}

\* C7: publishing the ladder over the rows an earlier pass over the same
\* ladder left succeeds in every AddVideoStream and leaves the rows as they
\* were, one per (video id, resolution, format); a Transcode attempt that
\* does so and succeeds leaves the Rendition rows unchanged.
C7_RepublishIdempotent ==
    [][\A w \in Runs :
          (At(w, "transcode") /\ FullLadder(wfs[w].VideoID)) =>
              /\ Publish(streams, videos, wfs[w].VideoID, resolutions, 0, N) =
                    [rows |-> streams, n |-> N]
              /\ KeysUnique(streams)
              /\ wfs'[w].pc = "cleanup" => streams' = streams]_vars

\* a Transcode attempt published the ladder and was lost with the worker, and
\* the retry encoded and published the ladder a second time
C7_Witness ==
    \E w \in Runs :
        /\ wfs[w].pc = "cleanup"
        /\ wfs[w].crashed
        /\ faults = 1
        /\ Cardinality(EncodedDirs(wfs[w].VideoID)) = 2
        /\ FullLadder(wfs[w].VideoID)

\* C8: when a Transcode attempt has published the ladder, the row stored for
\* the key of each ladder entry published last for that key carries that
\* entry's bitrate, storage key, size and segment duration.
C8_UpsertReplaces ==
    [][\A w \in Runs :
          (At(w, "transcode") /\ wfs'[w].pc = "cleanup") =>
              \A k \in 1..N :
                  (\A j \in (k + 1)..N :
                       ResolutionLabel(resolutions[j]) # ResolutionLabel(resolutions[k]))
                  => \A c \in Conflicting(streams', StreamRow(wfs[w].VideoID, k - 1,
                                                              resolutions[k])) :
                        LET s == StreamRow(wfs[w].VideoID, k - 1, resolutions[k])
                        IN /\ c.bitrate = s.bitrate
                           /\ c.path = s.path
                           /\ c.size = s.size
                           /\ c.segment_size = s.segment_size]_vars

\* the files of the output directories of a Video that are no variant playlist
ManifestFiles(id) ==
    {f \in files : /\ Dir(f)[1] = "output-"
                   /\ Dir(f)[2] = id
                   /\ f \notin VariantFiles(Dir(f), id, resolutions)}

\* C9: a successful Transcode stage returns one descriptor per ladder entry,
\* in ladder order, and has produced a master manifest.
C9_DescriptorsAndManifest ==
    \A w \in Runs :
        (wfs[w].pc = "cleanup" /\ wfs[w].attempt = 1) =>
            /\ Len(wfs[w].out) = N
            /\ \A k \in 1..N :
                  /\ wfs[w].out[k].Resolution = ResolutionLabel(resolutions[k])
                  /\ wfs[w].out[k].Bitrate = resolutions[k].Bitrate
            /\ ManifestFiles(wfs[w].VideoID) # {}

\* C10: a run whose Transcode stage failed on every attempt, and whose status
\* writes were all accepted, ends in error with no Rendition row of the Video.
C10_AllOrNothing ==
    \A w \in Runs :
        (wfs[w].pc = "done" /\ wfs[w].failed = "transcode" /\ ~wfs[w].statusFailed)
            => /\ HasRow(wfs[w].VideoID)
               /\ StateOf(wfs[w].VideoID) = "error"
               /\ RowsOf(wfs[w].VideoID) = {}

\* the request the last response answers
Served == resp.req

ServedObjectKey == ServedKey(Served.videoID, Served.op, Served.filename)

ServedCacheKey == CacheKey(Served.op, ServedObjectKey)

IsFileRequest == Served.op \in {"hls", "dash"}

EndsWith(name, suffix) ==
    Len(name) >= Len(suffix)
    /\ SubSeq(name, Len(name) - Len(suffix) + 1, Len(name)) = suffix

\* C11: a file request that misses the cache is never answered with bytes:
\* it is redirected to the URL signed for videos/{videoId}/{format}/{filename}
\* with the 1-hour TTL (an internal error when the signing fails).
C11_MissRedirects ==
    (IsFileRequest /\ Served.redisUp /\ ~CacheHit(cache, ServedCacheKey, TRUE)) =>
        /\ resp.kind # "bytes" /\ resp.body = ""
        /\ Served.signOk =>
              /\ resp.kind = "redirect"
              /\ resp.status = StatusTemporaryRedirect
              /\ resp.location = GetSignedURL(ServedObjectKey, SegmentURLHours)
        /\ ~Served.signOk => resp.kind = "error"

\* a miss on a cache that holds other keys was redirected
C11_Witness ==
    /\ IsFileRequest /\ Served.redisUp /\ Served.signOk
    /\ cache # NoCache
    /\ ServedCacheKey \notin DOMAIN cache
    /\ resp.kind = "redirect"

\* C12: a file request whose cache lookup fails is not failed for it: the
\* answer is the one the same request gets on a miss.
C12_CacheFailureFallsThrough ==
    (IsFileRequest /\ ~Served.redisUp) =>
        LET miss == ServeSigned(Served, ServedObjectKey)
        IN /\ resp = miss
           /\ Served.signOk => resp.kind = "redirect"

\* the cache failed on a key it holds, and the request was redirected
C12_Witness ==
    /\ IsFileRequest /\ ~Served.redisUp /\ Served.signOk
    /\ ServedCacheKey \in DOMAIN cache /\ cache[ServedCacheKey] # ""
    /\ resp.kind = "redirect"

\* C13: a cache hit returns the cached bytes unchanged, with the playlist mime
\* type for every name ending in .m3u8 and a media mime type for names ending
\* in .ts or .mp4.
C13_HitContentType ==
    (IsFileRequest /\ CacheHit(cache, ServedCacheKey, Served.redisUp)) =>
        /\ resp.kind = "bytes" /\ resp.body = cache[ServedCacheKey]
        /\ EndsWith(Served.filename, M3U8) => resp.contentType = "application/x-mpegURL"
        /\ (EndsWith(Served.filename, <<".", "t", "s">>)
            \/ EndsWith(Served.filename, <<".", "m", "p", "4">>))
              => resp.contentType \in {"video/MP2T", "video/mp4"}

\* the last request needed a signed URL
NeedsSigning ==
    \/ IsFileRequest /\ ~CacheHit(cache, ServedCacheKey, Served.redisUp)
    \/ /\ Served.op = "detail" /\ Served.catalog = "ok"
       /\ \E c \in RowsOf(Served.videoID) : c.resolution = <<1920, "x", 1080>>

\* C14: a read operation that needs a signed URL the Object Store fails to
\* sign answers with an internal error.
C14_SigningFailureIsInternalError ==
    (Served.op # "none" /\ NeedsSigning /\ ~Served.signOk) =>
        resp.status = StatusInternalServerError

\* C15: the detail of an id with no Video row is not-found, with no Rendition
\* read and no URL signed; a catalog failure on an existing Video is not
\* reported as not-found.
C15_NotFoundOnlyWhenMissing ==
    Served.op = "detail" =>
        /\ ~HasRow(Served.videoID) =>
              (resp.status = StatusNotFound /\ resp.detail = <<>> /\ resp.location = NoURL)
        /\ (HasRow(Served.videoID) /\ Served.catalog # "ok") => resp.status # StatusNotFound

\* C16: the detail carries a master manifest URL for a format exactly when the
\* Video has a Rendition of that format at 1920x1080, and that URL is the
\* stored key of that Rendition signed with the 24-hour TTL, longer than the
\* TTL of the file redirects.
C16_MasterURLOfReferenceRendition ==
    (Served.op = "detail" /\ Served.signOk /\ resp.status = StatusOK) =>
        /\ MasterURLHours > SegmentURLHours
        /\ (resp.detail[1].HLSMaster # NoURL) <=>
              \E c \in RowsOf(Served.videoID) :
                  c.format = "hls" /\ c.resolution = <<1920, "x", 1080>>
        /\ \A c \in RowsOf(Served.videoID) :
              (c.format = "hls" /\ c.resolution = <<1920, "x", 1080>>) =>
                  resp.detail[1].HLSMaster = GetSignedURL(c.path, MasterURLHours)

\* the detail a request for the id gets in the current state
DetailNow(id) ==
    GetVideoInfoResponse(videos, streams, Request("detail", id, <<>>, TRUE, TRUE, "ok"))

\* C17: while a Video is transcoding or in an earlier state it has no
\* Rendition rows, and its detail reports that state with no Renditions.
C17_NoRenditionsBeforeCompleted ==
    \A id \in DOMAIN videos :
        StateOf(id) \in {"received", "downloading", "analyzing", "transcoding"} =>
            /\ RowsOf(id) = {}
            /\ DetailNow(id).detail[1].Status = StateOf(id)
            /\ DetailNow(id).detail[1].Streams = {}

\* C18: the detail of a Video in error carries its metadata, no master
\* manifest URL and no Rendition.
C18_ErrorVideoNotPlayable ==
    \A id \in DOMAIN videos :
        StateOf(id) = "error" =>
            /\ DetailNow(id).status = StatusOK
            /\ DetailNow(id).detail[1].Title = videos[id].title
            /\ DetailNow(id).detail[1].Status = "error"
            /\ DetailNow(id).detail[1].HLSMaster = NoURL
            /\ DetailNow(id).detail[1].Streams = {}

\* StorageService.UploadFile is the only writer of the Object Store: the keys
\* it holds are those of the uploads that passed it
ObjectStore ==
    {ObjectKeyOf(reqs[r].videoID, Ext(reqs[r].header)) :
        r \in {q \in 1..NReqs : reqs[q].pc # "failed"}}

\* C19: for a completed Video every Rendition row's storage key, and the
\* master manifest key the detail signs, name an object of the Object Store.
C19_CompletedKeysUploaded ==
    \A id \in DOMAIN videos :
        StateOf(id) = "completed" =>
            /\ \A c \in RowsOf(id) : c.path \in ObjectStore
            /\ DetailNow(id).detail[1].HLSMaster # NoURL =>
                  ServedKey(id, "hls", MasterFile("hls")) \in ObjectStore

\* C20: a Download attempt re-executed after a crash inside the stage, once
\* it has fetched the source again, succeeds, and one Video row and one local
\* copy of the source exist.
C20_DownloadReexecutes ==
    [][\A w \in Runs :
          (/\ At(w, "download") /\ wfs[w].attempt > 1 /\ wfs[w].crashed
           /\ wfs'[w] # wfs[w] /\ files' # files) =>
              /\ wfs'[w].pc = "analyze"
              /\ HasRow(wfs[w].VideoID)'
              /\ Cardinality({f \in files' : Dir(f)[1] = "transcode-"
                                             /\ Dir(f)[2] = wfs[w].VideoID}) = 1]_vars

\* the Video id a local directory or file name carries
PathID(p) == IF p \in dirs \cup dirs' THEN p[2]
             ELSE IF Dir(p) = TempDir THEN p[2][1] ELSE Dir(p)[2]

\* the local paths that belong to the run w: the directories and files named
\* after its Video id, its download and the input it hands to FFmpeg
Owned(w) ==
    {p \in dirs \cup dirs' \cup files \cup files' : PathID(p) = wfs[w].VideoID}
    \cup {wfs[w].localPath, InputFile(wfs[w])}

\* the local paths a step of run w creates, removes or reads
Touched(w) ==
    (dirs' \ dirs) \cup (dirs \ dirs') \cup (files' \ files) \cup (files \ files')
    \cup (IF wfs[w].pc = "transcode" /\ dirs' # dirs THEN {InputFile(wfs[w])} ELSE {})

ScratchLeft(id) == {d \in dirs : d[1] \in {"transcode-", "output-"} /\ d[2] = id}

\* C22: when the only run of a Video id has ended, and Cleanup did not fail for
\* good, no download directory and no output directory of the id is left.
C22_ScratchRemoved ==
    \A w \in Runs :
        (/\ wfs[w].pc = "done"
         /\ wfs[w].failed # "cleanup"
         /\ \A b \in Runs : b # w => wfs[b].VideoID # wfs[w].VideoID)
            => ScratchLeft(wfs[w].VideoID) = {}

\* C23: a run whose Cleanup failed for good goes on to write completed and to
\* return success; none of its steps sets the Video to error.
C23_CleanupFailureSwallowed ==
    [][\A w \in Runs :
          /\ (wfs[w].pc = "cleanup" /\ wfs'[w].pc # "cleanup")
                => wfs'[w].pc = "st_completed"
          /\ wfs[w].failed = "cleanup" =>
                /\ wfs'[w].pc \in {"st_completed", "done"}
                /\ wfs'[w].failed = "cleanup"
                /\ (wfs'[w] # wfs[w] /\ HasRow(wfs[w].VideoID)) =>
                      \/ videos'[wfs[w].VideoID].processing_state # "error"
                      \/ StateOf(wfs[w].VideoID) = "error"
                /\ (wfs'[w].pc = "done" /\ wfs[w].pc # "done" /\ ~wfs'[w].statusFailed) =>
                      /\ wfs'[w].status = "ok"
                      /\ videos'[wfs[w].VideoID].processing_state = "completed"]_vars

\* a run that returned success although its Cleanup failed on every attempt
C23_Witness ==
    \E w \in Runs :
        /\ wfs[w].pc = "done" /\ wfs[w].failed = "cleanup" /\ wfs[w].status = "ok"
        /\ StateOf(wfs[w].VideoID) = "completed"
        /\ Dir(wfs[w].localPath) \in dirs

\* C24: a stage is attempted at most 3 times and a status update at most 5
\* times, and the wait before attempt a + 1 is min(initial * 2^(a - 1), cap),
\* with 60 s and 600 s for stages and 1 s and 10 s for status updates.
C24_BoundedBackoff ==
    \A w \in Runs :
        LET run == wfs[w]
            isStatus == run.pc \in StatusStages
            initial == IF isStatus THEN 1 ELSE 60
            cap == IF isStatus THEN 10 ELSE 600
            doubled == initial * (2 ^ (run.attempt - 2))
        IN /\ run.attempt <= (IF isStatus THEN 5 ELSE 3)
           /\ run.pc # "done" => run.attempt >= 1
           /\ run.attempt <= 1 => run.waited = 0
           /\ run.attempt > 1 => run.waited = (IF doubled < cap THEN doubled ELSE cap)

\* a status update at its fifth attempt beside a stage at its third attempt
C24_Witness ==
    \E a, b \in Runs :
        /\ wfs[a].pc \in StatusStages /\ wfs[a].attempt = 5 /\ wfs[a].waited = 8
        /\ wfs[b].pc \in {"download", "analyze", "transcode", "cleanup"}
        /\ wfs[b].attempt = 3 /\ wfs[b].waited = 120

\* the processing_state values a run without failures may show at a position
ExpectedStates(pc) ==
    CASE pc \in {"st_processing", "download"} -> {"received", "downloading"}
      [] pc = "analyze" -> {"downloading", "analyzing"}
      [] pc = "transcode" -> {"analyzing", "transcoding"}
      [] pc \in {"cleanup", "st_completed"} -> {"transcoding", "completed"}
      [] OTHER -> {"completed"}

\* C25: during the first run of a Video id, as long as nothing failed, the
\* Catalog Store shows the Video in the state of the stage in progress or of
\* the stage before it: received, downloading, analyzing, transcoding,
\* completed, in that order.
C25_StatesInOrder ==
    \A w \in Runs :
        (/\ wfs[w].failed = "none" /\ ~wfs[w].statusFailed /\ ~wfs[w].crashed
         /\ wfs[w].attempt <= 1
         /\ wfs[w].status \in {"open", "ok"}
         /\ \A b \in Runs : b # w => wfs[b].VideoID # wfs[w].VideoID)
            => /\ HasRow(wfs[w].VideoID)
               /\ StateOf(wfs[w].VideoID) \in ExpectedStates(wfs[w].pc)

\* C26: once the Analyze stage of a run has succeeded, the duration stored for
\* the Video is the running time of the downloaded file.
C26_DurationStored ==
    \A w \in Runs :
        (/\ wfs[w].failed \in {"none", "cleanup"}
         /\ wfs[w].pc \in {"transcode", "cleanup", "st_completed", "done"}
         /\ HasRow(wfs[w].VideoID))
            => videos[wfs[w].VideoID].duration = MediaDuration(wfs[w].Filename)

\* C27: two uploads that were both accepted never carry the same video id.
C27_UniqueVideoIDs ==
    \A r1, r2 \in 1..NReqs :
        (r1 # r2 /\ reqs[r1].pc = "uploaded" /\ reqs[r2].pc = "uploaded")
            => reqs[r1].videoID # reqs[r2].videoID

\* the query texts that are plain decimal numerals, and what they denote
PlainNumerals == {<<"0">>, <<"1">>, <<"2">>, <<"1", "0">>}

NumeralValue(q) ==
    CASE q = <<"0">> -> 0 [] q = <<"1">> -> 1 [] q = <<"2">> -> 2 [] OTHER -> 10

Requested(q, default) == IF q = <<>> THEN default ELSE NumeralValue(q)

\* a listing the catalog answered, asked with numerals or with no parameters
IsPlainListing ==
    /\ Served.op = "list" /\ Served.catalog = "ok"
    /\ Served.query.limit \in PlainNumerals \cup {<<>>}
    /\ Served.query.offset \in PlainNumerals \cup {<<>>}

\* C28: a listing returns, newest first, the Videos at the positions offset + 1
\* to offset + limit of the catalog ordered by creation time descending, and
\* its pagination field repeats the limit and offset used, 10 and 0 when the
\* caller sent none.
C28_ListVideosPage ==
    IsPlainListing =>
        LET limit == Requested(Served.query.limit, 10)
            offset == Requested(Served.query.offset, 0)
            n == Cardinality(DOMAIN videos)
            items == resp.detail[1].videos.items
            rest == IF n > offset THEN n - offset ELSE 0
        IN /\ resp.status = StatusOK
           /\ resp.detail[1].pagination = [limit |-> limit, offset |-> offset]
           /\ Len(items) = (IF limit < rest THEN limit ELSE rest)
           /\ \A i \in 1..Len(items) :
                 /\ items[i].ID \in DOMAIN videos
                 /\ items[i].Video = videos[items[i].ID]
                 /\ Cardinality({id \in DOMAIN videos : videos[id].created_at
                                    > items[i].Video.created_at}) <= offset + i - 1
                 /\ Cardinality({id \in DOMAIN videos : videos[id].created_at
                                    >= items[i].Video.created_at}) >= offset + i
           /\ \A i, j \in 1..Len(items) :
                 i < j => /\ items[i].ID # items[j].ID
                          /\ items[i].Video.created_at >= items[j].Video.created_at

\* the second page of size one of a catalog of two Videos holds the older one
C28_Witness ==
    /\ Served.op = "list" /\ resp.status = StatusOK
    /\ Served.query = [limit |-> <<"1">>, offset |-> <<"1">>]
    /\ Cardinality(DOMAIN videos) = 2
    /\ Len(resp.detail[1].videos.items) = 1
    /\ resp.detail[1].videos.items[1].ID = generateUniqueID(1)
    /\ videos[generateUniqueID(1)].created_at < videos[generateUniqueID(2)].created_at

\* C29: a listing of an empty catalog, asked with a limit and an offset that
\* are not negative, answers 200 with an empty list of Videos and with the
\* limit and offset asked for.
C29_EmptyCatalogListing ==
    (IsPlainListing /\ DOMAIN videos = {}) =>
        /\ resp.status = StatusOK
        /\ resp.detail[1].pagination = [limit |-> Requested(Served.query.limit, 10),
                                        offset |-> Requested(Served.query.offset, 0)]
        /\ resp.detail[1].videos = [null |-> FALSE, items |-> <<>>]

\* the files an encode may write: the playlist of a ladder entry, or one of
\* its segments
OutputKeys ==
    [kind : {"playlist"}, i : Indices, n : {0}]
    \cup [kind : {"segment"}, i : Indices, n : SegmentNumbers]

\* the file name of such a file of the Video being encoded
NameOf(k) ==
    IF k.kind = "playlist"
    THEN PlaylistFileName(IDText(EncodedID), VariantText(k.i))
    ELSE SegmentFileName(IDText(EncodedID), VariantText(k.i), k.n)

\* C30: for one video, every file name in the output directory is the name of
\* exactly one playlist or segment: no file name of a ladder entry is also a
\* file name of another entry, or of another segment number.
C30_NamesNeverCollide ==
    \A f \in files :
        /\ Dir(f) = OutputDir
        /\ Cardinality({k \in OutputKeys : NameOf(k) = f[2]}) = 1

\* segment 1000 of entry 1 and segment 0 of entry 11 lie side by side
C30_Witness ==
    /\ Cardinality(files) = 2
    /\ Join(OutputDir, SegmentFileName(IDText(EncodedID), VariantText(1), 1000)) \in files
    /\ Join(OutputDir, SegmentFileName(IDText(EncodedID), VariantText(11), 0)) \in files

\* C31: a request the streamer answers leaves the Videos, the Renditions, the
\* cache and the objects of the Object Store as they were.
C31_ReadsChangeNothing ==
    [][resp' # resp =>
          /\ videos' = videos
          /\ streams' = streams
          /\ cache' = cache
          /\ ObjectStore' = ObjectStore]_vars

\* a playlist request that missed the cache was redirected, catalog not empty
C31_Witness ==
    /\ Served.op = "hls" /\ resp.status = StatusTemporaryRedirect
    /\ Served.redisUp /\ ServedCacheKey \notin DOMAIN cache
    /\ DOMAIN videos # {} /\ streams # {}

\* C32: every Video row has updated_at >= created_at.
C32_UpdatedNotBeforeCreated ==
    \A id \in DOMAIN videos : videos[id].updated_at >= videos[id].created_at

\* C33: the input file a run's Transcode stage hands to FFmpeg is the local
\* path its Download stage returned, and that file is on disk.
C33_TranscodeReadsDownload ==
    \A w \in Runs :
        At(w, "transcode") =>
            /\ InputFile(wfs[w]) = wfs[w].localPath
            /\ InputFile(wfs[w]) \in files

\* C34: a Video in state completed has exactly one Rendition row per ladder
\* entry, the row of entry i carrying that entry's resolution, bitrate and
\* storage key.
C34_OneRowPerLadderEntry ==
    \A id \in DOMAIN videos :
        StateOf(id) = "completed" =>
            /\ Cardinality(RowsOf(id)) = N
            /\ \A k \in 1..N :
                  \E c \in RowsOf(id) :
                      LET s == StreamRow(id, k - 1, resolutions[k])
                      IN /\ c.resolution = s.resolution
                         /\ c.bitrate = s.bitrate
                         /\ c.path = s.path

\* C35: a run that returns an error does so from the write of status error:
\* the error status update is the last activity of every failing run.
C35_ErrorWrittenBeforeFailing ==
    [][\A w \in Runs :
          (wfs[w].pc # "done" /\ wfs'[w].pc = "done" /\ wfs'[w].status = "err")
              => wfs[w].pc = "st_error"]_vars

C37_ScheduledMeansStarted ==
    \A r \in 1..NReqs :
        reqs[r].pc = "uploaded" =>
            /\ reqs[r].scheduled
            /\ ObjectKeyOf(reqs[r].videoID, Ext(reqs[r].header)) \in ObjectStore
            /\ \E w \in Runs : wfs[w].VideoID = reqs[r].videoID

\* C38: once stopServices has returned, no child process that startService
\* started is running.
C38_NoChildLeftRunning ==
    sup.main = "returned" =>
        \A n \in ServiceNames : sup.services[n].Process # "running"

====
